---------------------------- MODULE Spec2Model ----------------------------
(***************************************************************************)
(* Windowed duplicate detection and cleanup of survey responses, as done   *)
(* by the two dashboards of the repository:                                *)
(*   src/app.py                 date filter, detect_duplicates             *)
(*   src/dashboard_avances.py   detect_duplicates, limpiar (session state) *)
(*                                                                         *)
(* A text value is a sequence of one-character strings; a table is a       *)
(* sequence of rows, each row carrying its pandas index label in the field *)
(* "index".  Times are minutes; NaT is the undefined instant.              *)
(***************************************************************************)
EXTENDS Integers, Sequences, FiniteSets, TLC

(***************************************************************************)
(* Bounds of the model.                                                    *)
(***************************************************************************)
\* largest number of rows of the loaded sheet
MaxRows == 3

\* largest number of rows of a sheet of the second specification, whose rows
\* vary less
MaxRowsMany == 4

\* largest number of rows of a sheet of the third specification, whose rows
\* have few equal times
MaxRowsSized == 5

\* longest text passed to a normalizer
MaxLen == 3

\* largest number of tokens a factors text is written from
MaxTokens == 3

\* largest number of rows of a sheet of coordinates
MaxPoints == 3

(***************************************************************************)
(* Values.                                                                 *)
(***************************************************************************)
\* a missing cell (None / NaN), the value pd.isna answers True for
NaN == <<"NaN">>

\* pd.NaT: the instant of a time cell that is missing or did not parse
NaT == -1

isna(x) == x = NaN

\* the code point of a character, which Python compares strings by
ord(c) ==
    CASE c = " " -> 32
      [] c = "," -> 44
      [] c = "7" -> 55
      [] c = ";" -> 59
      [] c = "X" -> 88
      [] c = "Y" -> 89
      [] c = "Z" -> 90
      [] c = "x" -> 120
      [] c = "y" -> 121
      [] c = "z" -> 122

\* str.isspace of one character
isspace(c) == c = " "

\* str.lower of one character
lower_char(c) ==
    CASE c = "X" -> "x"
      [] c = "Y" -> "y"
      [] c = "Z" -> "z"
      [] OTHER -> c

\* str.upper of one character
upper_char(c) ==
    CASE c = "x" -> "X"
      [] c = "y" -> "Y"
      [] c = "z" -> "Z"
      [] OTHER -> c

\* a conversion that turns the case of every letter around
swapcase(s) ==
    [k \in 1..Len(s) |-> IF lower_char(s[k]) # s[k] THEN lower_char(s[k]) ELSE upper_char(s[k])]

lower(s) == [k \in 1..Len(s) |-> lower_char(s[k])]

RECURSIVE lstrip(_)
lstrip(s) == IF s # <<>> /\ isspace(Head(s)) THEN lstrip(Tail(s)) ELSE s

RECURSIVE rstrip(_)
rstrip(s) ==
    IF s # <<>> /\ isspace(s[Len(s)]) THEN rstrip(SubSeq(s, 1, Len(s) - 1)) ELSE s

strip(s) == rstrip(lstrip(s))

\* position of the first character of s satisfying "is the separator", or 0
RECURSIVE find(_, _, _)
find(s, sep, k) ==
    IF k > Len(s) THEN 0
    ELSE IF s[k] = sep THEN k
    ELSE find(s, sep, k + 1)

\* s.split(sep): the parts between separators, empty parts included
RECURSIVE split_sep(_, _)
split_sep(s, sep) ==
    LET k == find(s, sep, 1)
    IN  IF k = 0 THEN <<s>>
        ELSE <<SubSeq(s, 1, k - 1)>> \o split_sep(SubSeq(s, k + 1, Len(s)), sep)

\* s.split(): the maximal runs of non-space characters
RECURSIVE split_ws(_)
split_ws(s) ==
    LET t == lstrip(s)
        k == find(t, " ", 1)
    IN  IF t = <<>> THEN <<>>
        ELSE IF k = 0 THEN <<t>>
        ELSE <<SubSeq(t, 1, k - 1)>> \o split_ws(SubSeq(t, k + 1, Len(t)))

\* sep.join(parts)
RECURSIVE join(_, _)
join(sep, parts) ==
    IF parts = <<>> THEN <<>>
    ELSE IF Len(parts) = 1 THEN parts[1]
    ELSE parts[1] \o sep \o join(sep, Tail(parts))

\* s.replace(old, new) for one-character old and new
replace(s, old, new) == [k \in 1..Len(s) |-> IF s[k] = old THEN new ELSE s[k]]

\* s < t as Python compares strings: by code point, a proper prefix first
RECURSIVE str_lt(_, _)
str_lt(s, t) ==
    IF t = <<>> THEN FALSE
    ELSE IF s = <<>> THEN TRUE
    ELSE IF Head(s) = Head(t) THEN str_lt(Tail(s), Tail(t))
    ELSE ord(Head(s)) < ord(Head(t))

\* list.sort() of a list of strings (insertion of each part in its place)
RECURSIVE insert_str(_, _)
insert_str(p, sorted) ==
    IF sorted = <<>> THEN <<p>>
    ELSE IF str_lt(p, Head(sorted)) THEN <<p>> \o sorted
    ELSE <<Head(sorted)>> \o insert_str(p, Tail(sorted))

\* a sort that leaves the parts in the order they came
sort_strs_keep(parts) == parts

RECURSIVE sort_strs(_)
sort_strs(parts) ==
    IF parts = <<>> THEN <<>>
    ELSE insert_str(parts[Len(parts)], sort_strs(SubSeq(parts, 1, Len(parts) - 1)))

(***************************************************************************)
(* The normalizers.                                                        *)
(***************************************************************************)
normalize_string(x) ==
    IF isna(x) THEN <<>>
    ELSE join(<<" ">>, split_ws(lower(strip(x))))

\* src/app.py
normalize_factors(x) ==
    IF isna(x) THEN <<>>
    ELSE LET raw == split_sep(replace(x, ";", ","), ",")
             parts == [k \in 1..Len(raw) |-> normalize_string(raw[k])]
             kept == SelectSeq(parts, LAMBDA p : p # <<>>)
         IN  join(<<",">>, sort_strs(kept))

\* src/dashboard_avances.py
normalize_factors_avances(x) ==
    IF isna(x) THEN <<>>
    ELSE LET parts == split_sep(replace(x, ";", ","), ",")
             live == SelectSeq(parts, LAMBDA p : normalize_string(p) # <<>>)
             kept == [k \in 1..Len(live) |-> normalize_string(live[k])]
         IN  join(<<",">>, sort_strs(kept))

(***************************************************************************)
(* The sheet.                                                              *)
(***************************************************************************)
META_COLS ==
    {"ObjectID", "GlobalID", "instance_id", "CreationDate", "EditDate", "Creator", "Editor"}

lon_col == "x"
lat_col == "y"

date_col_candidates == <<"CreationDate", "EditDate", "¿Cuándo fue el último incidente?">>

\* minutes of one calendar day, which .dt.date cuts a time by
MinutesPerDay == 1440

\* "factor" in c.lower(), on the column names of the modelled sheet
is_factor_col(c) == c = "factores"

\* content_cols = [c for c in df.columns if c not in META_COLS | {lon_col, lat_col}]
content_cols_of(columns) ==
    SelectSeq(columns, LAMBDA c : c \notin META_COLS \cup {lon_col, lat_col})

Range(s) == {s[k] : k \in 1..Len(s)}

\* the lists of a list, one after the other
RECURSIVE concat(_)
concat(ss) == IF ss = <<>> THEN <<>> ELSE Head(ss) \o concat(Tail(ss))

\* df.index
index_of(df) == [k \in 1..Len(df) |-> df[k].index]

\* the position in df of the row labelled i (labels are unique)
loc(df, i) == CHOOSE k \in 1..Len(df) : df[k].index = i

(***************************************************************************)
(* pd.util.hash_pandas_object(norm_df, index=False): one digest per row,   *)
(* made of the digests of the row's cells in column order.  The 64-bit     *)
(* digests are modelled without collisions on the modelled texts: a cell   *)
(* digest is the positional code of the text, and the row digest shifts    *)
(* the running value by the range of a cell digest before adding the next. *)
(***************************************************************************)
hash_char(c) ==
    CASE c = " " -> 1
      [] c = "," -> 2
      [] c = ";" -> 3
      [] c = "x" -> 4
      [] c = "y" -> 5
      [] c = "z" -> 6
      [] c = "X" -> 7
      [] c = "Y" -> 8
      [] c = "Z" -> 9

RECURSIVE hash_array(_)
hash_array(s) == IF s = <<>> THEN 0 ELSE hash_char(Head(s)) + 10 * hash_array(Tail(s))

RECURSIVE combine_hash_arrays(_, _)
combine_hash_arrays(cells, out) ==
    IF cells = <<>> THEN out
    ELSE combine_hash_arrays(Tail(cells), out * 10000 + hash_array(Head(cells)))

\* a key made of the cells' texts written one after the other
hash_joined_text(cells) == hash_array(concat(cells))

hash_pandas_object(cells) == combine_hash_arrays(cells, 0)

(***************************************************************************)
(* DataFrame.sort_values(time_col): ascending, NaT rows last in the order  *)
(* they had.  The default sort is not stable, so rows with equal times may *)
(* come out in any order; `order` is the permutation the sort produced.    *)
(***************************************************************************)
\* the position p may come next among the positions S still to be placed
may_come_next(times, S, p) ==
    IF times[p] = NaT
    THEN \A q \in S : times[q] = NaT /\ p <= q
    ELSE \A q \in S : times[q] = NaT \/ times[p] <= times[q]

RECURSIVE sort_orders_of(_, _)
sort_orders_of(times, S) ==
    IF S = {} THEN {<<>>}
    ELSE UNION { { <<p>> \o rest : rest \in sort_orders_of(times, S \ {p}) } :
                 p \in {q \in S : may_come_next(times, S, q)} }

sort_orders(times) == sort_orders_of(times, 1..Len(times))

sort_values(rows, order) == [k \in 1..Len(rows) |-> rows[order[k]]]

\* reset_index(drop=True): the labels become the positions 0..n-1
reset_index(rows) == [k \in 1..Len(rows) |-> [rows[k] EXCEPT !.index = k - 1]]

(***************************************************************************)
(* The run walk shared by both detect_duplicates.                          *)
(***************************************************************************)
\* a difference that takes the undefined instant for a number
time_diff_numeric(g, k) ==
    IF k = 1 THEN NaT ELSE g[k].time - g[k - 1].time

\* a difference taken to the first row of g
time_diff_first(g, k) ==
    IF k = 1 \/ g[k].time = NaT \/ g[1].time = NaT THEN NaT
    ELSE g[k].time - g[1].time

\* g[time_col].diff() at position k
time_diff_prev(g, k) ==
    IF k = 1 \/ g[k].time = NaT \/ g[k - 1].time = NaT THEN NaT
    ELSE g[k].time - g[k - 1].time

\* a walk that also starts a block at a gap equal to the window
starts_block_at_window(g, k, win) ==
    time_diff_prev(g, k) = NaT \/ time_diff_prev(g, k) >= win

\* (g["time_diff_prev"].isna() | (g["time_diff_prev"] > win)) at position k
starts_block(g, k, win) ==
    time_diff_prev(g, k) = NaT \/ time_diff_prev(g, k) > win

\* the cumulative sum of the block starts
block_id(g, k, win) == Cardinality({j \in 1..k : starts_block(g, j, win)})

\* a walk that reports every close pair of neighbours on its own
blocks_of_pairs(g, win) ==
    [k \in 1..(Len(g) - 1) |->
        IF starts_block(g, k + 1, win) THEN <<g[k]>> ELSE <<g[k], g[k + 1]>>]

\* g.groupby(block_id): the blocks in ascending id, rows in the order of g
blocks_of(g, win) ==
    [b \in 1..block_id(g, Len(g), win) |->
        SelectSeq(g, LAMBDA r :
            \E k \in 1..Len(g) : g[k] = r /\ block_id(g, k, win) = b)]

\* Series.min() and Series.max() of the times of a block, NaT skipped
RECURSIVE seq_min(_)
seq_min(ts) ==
    IF Len(ts) = 1 THEN ts[1]
    ELSE LET m == seq_min(Tail(ts)) IN IF ts[1] <= m THEN ts[1] ELSE m

RECURSIVE seq_max(_)
seq_max(ts) ==
    IF Len(ts) = 1 THEN ts[1]
    ELSE LET m == seq_max(Tail(ts)) IN IF ts[1] >= m THEN ts[1] ELSE m

parsed(ts) == SelectSeq(ts, LAMBDA t : t # NaT)

time_min(ts) == IF parsed(ts) = <<>> THEN NaT ELSE seq_min(parsed(ts))
\* a latest time that is the earliest
time_max_earliest(ts) == time_min(ts)

time_max(ts) == IF parsed(ts) = <<>> THEN NaT ELSE seq_max(parsed(ts))

\* the distinct values of _hash_content in ascending order (groupby sorts its keys)
RECURSIVE sorted_keys(_)
sorted_keys(S) ==
    IF S = {} THEN <<>>
    ELSE LET m == CHOOSE x \in S : \A y \in S : x <= y
         IN  <<m>> \o sorted_keys(S \ {m})

\* an order by size alone
goes_before_by_size(a, b) == a.conteo_duplicados > b.conteo_duplicados

\* sort_values(["conteo_duplicados", "ultimo"], ascending=[False, False]):
\* a stable sort, groups that tie on both keep the order they were appended in
goes_before(a, b) ==
    \/ a.conteo_duplicados > b.conteo_duplicados
    \/ a.conteo_duplicados = b.conteo_duplicados /\ a.ultimo > b.ultimo

RECURSIVE insert_group(_, _)
insert_group(r, sorted) ==
    IF sorted = <<>> THEN <<r>>
    ELSE IF goes_before(r, Head(sorted)) THEN <<r>> \o sorted
    ELSE <<Head(sorted)>> \o insert_group(r, Tail(sorted))

RECURSIVE sort_groups(_)
sort_groups(results) ==
    IF results = <<>> THEN <<>>
    ELSE insert_group(Head(results), sort_groups(Tail(results)))

\* what a call returns: a frame of group rows, or the KeyError that ended it,
\* raised for a column name (key) or for an index label (label)
Frame(rows) == [kind |-> "DataFrame", key |-> "", label |-> -1, rows |-> rows]
KeyErrorColumn(c) == [kind |-> "KeyError", key |-> c, label |-> -1, rows |-> <<>>]
KeyErrorLabel(i) == [kind |-> "KeyError", key |-> "", label |-> i, rows |-> <<>>]
NoResult == [kind |-> "none", key |-> "", label |-> -1, rows |-> <<>>]

(***************************************************************************)
(* detect_duplicates.  A row of tmp carries, besides what the code keeps,  *)
(* the label `row` its source row has in df: the code of src/app.py loses  *)
(* it at reset_index, the model keeps it to say which rows a group holds   *)
(* (the field `members` of a group row).                                   *)
(***************************************************************************)
normalize_col(c, x) == IF is_factor_col(c) THEN normalize_factors(x) ELSE normalize_string(x)

normalize_col_avances(c, x) ==
    IF is_factor_col(c) THEN normalize_factors_avances(x) ELSE normalize_string(x)

\* the row of norm_df made from the row r of df
norm_row(r, content_cols) ==
    [k \in 1..Len(content_cols) |-> normalize_col(content_cols[k], r[content_cols[k]])]

norm_row_avances(r, content_cols) ==
    [k \in 1..Len(content_cols) |-> normalize_col_avances(content_cols[k], r[content_cols[k]])]

\* tmp[time_col] after pd.to_datetime(..., errors="coerce"), as a list
times_of(df, time_col) == [k \in 1..Len(df) |-> df[k][time_col]]

\* the rows of tmp whose _hash_content is h, sorted by time again (order o2)
hash_group(tmp, h, o2) ==
    SelectSeq(sort_values(tmp, o2), LAMBDA r : r._hash_content = h)

\* a report that lets a block of one row through
is_reported_any(gb) == Len(gb) >= 1

\* if gb.shape[0] >= 2 / if len(gb) >= 2
is_reported(gb) == Len(gb) >= 2

\* the blocks of at least two rows, by ascending hash and then by block number
duplicate_blocks(tmp, o2, win) ==
    LET hs == sorted_keys({tmp[k]._hash_content : k \in 1..Len(tmp)})
        of_hash(h) ==
            LET g == hash_group(tmp, h, o2)
            IN  IF Len(g) < 2 THEN <<>>
                ELSE SelectSeq(blocks_of(g, win), is_reported)
    IN  concat([k \in 1..Len(hs) |-> of_hash(hs[k])])

block_times(gb) == [k \in 1..Len(gb) |-> gb[k].time]

\* src/app.py: o1 and o2 are the orders the two sort_values produced
detect_duplicates(df, columns, time_col, window_minutes, content_cols, o1, o2) ==
    IF df = <<>> \/ content_cols = <<>> THEN Frame(<<>>)
    ELSE IF \E c \in Range(content_cols) : c \notin Range(columns)
    THEN KeyErrorColumn(CHOOSE c \in Range(content_cols) : c \notin Range(columns))
    ELSE IF time_col \notin Range(columns) THEN KeyErrorColumn(time_col)
    ELSE
    LET norm_df == [k \in 1..Len(df) |->
                       [index |-> df[k].index, cells |-> norm_row(df[k], content_cols)]]
        tmp0 == [k \in 1..Len(df) |->
                    [index |-> df[k].index,
                     row |-> df[k].index,
                     _hash_content |-> hash_pandas_object(norm_df[k].cells),
                     time |-> df[k][time_col]]]
        tmp == reset_index(sort_values(tmp0, o1))
        gbs == duplicate_blocks(tmp, o2, window_minutes)
        labels == Range(index_of(norm_df))
        result(gb) ==
            [conteo_duplicados |-> Len(gb),
             primero |-> time_min(block_times(gb)),
             ultimo |-> time_max(block_times(gb)),
             ventana_min |-> window_minutes,
             hash |-> gb[1]._hash_content,
             indices |-> index_of(gb),
             content |-> norm_df[loc(norm_df, gb[1].index)].cells,
             members |-> [k \in 1..Len(gb) |-> gb[k].row]]
    IN  IF \E k \in 1..Len(gbs) : gbs[k][1].index \notin labels
        THEN LET k == CHOOSE j \in 1..Len(gbs) :
                         /\ gbs[j][1].index \notin labels
                         /\ \A i \in 1..(j - 1) : gbs[i][1].index \in labels
             IN  KeyErrorLabel(gbs[k][1].index)
        ELSE Frame(sort_groups([k \in 1..Len(gbs) |-> result(gbs[k])]))

\* a list of the labels the rows have after reset_index
row_i_after_reset(gb) == index_of(gb)

\* gb["_row_i"].tolist()
row_i_list(gb) == [k \in 1..Len(gb) |-> gb[k]._row_i]

\* src/dashboard_avances.py
detect_duplicates_avances(df, columns, time_col, window_minutes, content_cols, o1, o2) ==
    IF df = <<>> \/ content_cols = <<>> THEN Frame(<<>>)
    ELSE IF \E c \in Range(content_cols) : c \notin Range(columns)
    THEN KeyErrorColumn(CHOOSE c \in Range(content_cols) : c \notin Range(columns))
    ELSE IF time_col \notin Range(columns) THEN KeyErrorColumn(time_col)
    ELSE
    LET tmp0 == [k \in 1..Len(df) |->
                    [index |-> df[k].index,
                     row |-> df[k].index,
                     _hash_content |->
                         hash_pandas_object(norm_row_avances(df[k], content_cols)),
                     time |-> df[k][time_col],
                     _row_i |-> df[k].index]]
        tmp == reset_index(sort_values(tmp0, o1))
        gbs == duplicate_blocks(tmp, o2, window_minutes)
        result(gb) ==
            [conteo_duplicados |-> Len(gb),
             primero |-> time_min(block_times(gb)),
             ultimo |-> time_max(block_times(gb)),
             indices |-> row_i_list(gb),
             members |-> [k \in 1..Len(gb) |-> gb[k].row]]
    IN  Frame(sort_groups([k \in 1..Len(gbs) |-> result(gbs[k])]))

(***************************************************************************)
(* The state of the two scripts.                                           *)
(***************************************************************************)
VARIABLES
    prog,            \* which script runs: "app" or "dashboard"
    columns,         \* df.columns of the loaded sheet
    df_raw,          \* the loaded sheet, time columns coerced (df of src/app.py)
    df_filtered,     \* src/app.py: the sheet after the date filter
    df_clean,        \* src/dashboard_avances.py: st.session_state.df_clean
    time_col,        \* the configured time column
    window_minutes,  \* the configured window
    criterio,        \* the keep policy of the last cleanup
    dupes,           \* what the last detect_duplicates returned
    dropped,         \* the labels the cleanups removed so far
    pc,              \* "start": a script run is due; "filtered": src/app.py
                     \* applied its date filter; "shown": the run finished;
                     \* "error": the run ended with an exception
    arg,             \* a normalizer call: the value passed
    tokens,          \* a normalizer call: the tokens the value was written from
    ret,             \* a normalizer call: the value returned
    fn,              \* a normalizer call: the function called, "none" before
    points,          \* the map of src/app.py: the x, y cells of df_filtered
    distance_enable, \* the map of src/app.py: the sidebar's checkbox
    distance_threshold_m,  \* the map of src/app.py: the sidebar's threshold
    valid_points,    \* the map of src/app.py: the rows with both coordinates
    pairs_df         \* the map of src/app.py: the pairs within the threshold

\* the variables of a script run, of a normalizer call and of the map
script_vars == <<prog, columns, df_raw, df_filtered, df_clean, time_col,
                 window_minutes, criterio, dupes, dropped, pc>>
call_vars == <<arg, tokens, ret, fn>>
map_vars == <<points, distance_enable, distance_threshold_m, valid_points, pairs_df>>

vars == <<script_vars, call_vars, map_vars>>

\* no normalizer call is looked at
NoCall == arg = <<>> /\ tokens = <<>> /\ ret = <<>> /\ fn = "none"

\* the map is not looked at
NoMap ==
    /\ points = <<>>
    /\ distance_enable = FALSE
    /\ distance_threshold_m = 200
    /\ valid_points = <<>>
    /\ pairs_df = <<>>

\* the parsed times of the modelled sheets, in minutes
Times == {0, 10, 20}

\* the answers of the modelled sheets: empty, two that differ only in where
\* the column boundary falls, and a respelling of the first of the two
Contents ==
    { [respuesta |-> NaN, factores |-> NaN],
      [respuesta |-> <<"x">>, factores |-> <<"y", "z">>],
      [respuesta |-> <<"x", "y">>, factores |-> <<"z">>],
      [respuesta |-> <<" ", "X">>, factores |-> <<"Y", "z", ";">>] }

Row(i, t, c) ==
    [index |-> i, CreationDate |-> t, respuesta |-> c.respuesta, factores |-> c.factores]

\* the sheets of n rows as pd.read_excel returns them: labels 0..n-1
Sheets(n, times, contents) ==
    { [k \in 1..n |-> Row(k - 1, ts[k], cs[k])] :
        ts \in [1..n -> times], cs \in [1..n -> contents] }

WithTime == <<"CreationDate", "respuesta", "factores">>
WithoutTime == <<"respuesta", "factores">>

\* src/dashboard_avances.py: the time column the script settles on
time_col_avances(cols) ==
    IF "CreationDate" \in Range(cols) THEN "CreationDate"
    ELSE IF "EditDate" \in Range(cols) THEN "EditDate"
    ELSE "¿Cuándo fue el último incidente?"

\* src/dashboard_avances.py: window_minutes = 10
WindowAvances == 10

\* the windows the sidebar of src/app.py is set to in the model
Windows == {5, 10}

Criterios == {"Más reciente", "Más antiguo"}

\* the state after the sheet was loaded and its time columns coerced
Loaded ==
    /\ prog \in {"app", "dashboard"}
    /\ df_filtered = <<>>
    /\ df_clean = IF prog = "dashboard" THEN df_raw ELSE <<>>
    /\ time_col = IF prog = "dashboard" THEN time_col_avances(columns) ELSE "CreationDate"
    /\ window_minutes = WindowAvances
    /\ criterio = "Más reciente"
    /\ dupes = NoResult
    /\ dropped = {}
    /\ pc = "start"

Init ==
    /\ columns \in {WithTime, WithoutTime}
    /\ \E n \in 1..MaxRows :
          df_raw \in Sheets(n, IF columns = WithTime THEN Times \cup {NaT} ELSE {NaT}, Contents)
    /\ Loaded
    /\ NoCall
    /\ NoMap

\* longer sheets of fewer kinds of rows: two answers, at two parsed times that
\* are more than a window apart
ContentsMany == {c \in Contents : c.respuesta \in {<<"x">>, <<"x", "y">>}}
TimesMany == {0, 20}

InitMany ==
    /\ columns = WithTime
    /\ \E n \in 1..MaxRowsMany : df_raw \in Sheets(n, TimesMany, ContentsMany)
    /\ Loaded
    /\ NoCall
    /\ NoMap

\* sheets of up to five rows of two answers: the row at position k was sent
\* at minute k \div 2 of an early or of a late burst, so at most two rows
\* share a time and the bursts are more than a window apart
BurstGap == 40

SheetsSized(n) ==
    { [k \in 1..n |-> Row(k - 1, (IF late[k] THEN BurstGap ELSE 0) + (k \div 2), cs[k])] :
        late \in [1..n -> BOOLEAN], cs \in [1..n -> ContentsMany] }

InitSized ==
    /\ columns = WithTime
    /\ \E n \in 1..MaxRowsSized : df_raw \in SheetsSized(n)
    /\ Loaded
    /\ NoCall
    /\ NoMap

(***************************************************************************)
(* src/app.py: one run of the script.                                      *)
(***************************************************************************)
\* t.date() as a day number
date_of(t) == t \div MinutesPerDay

\* df.loc[mask]: a NaT compares False and its row is left out
date_filter(df, date_min, date_max) ==
    SelectSeq(df, LAMBDA r :
        /\ r.CreationDate # NaT
        /\ date_of(r.CreationDate) >= date_min
        /\ date_of(r.CreationDate) <= date_max)

filtered(df, cols, date_filter_enable, date_min, date_max) ==
    IF date_filter_enable /\ "CreationDate" \in Range(cols)
    THEN date_filter(df, date_min, date_max)
    ELSE df

\* the times the first sort_values sorts, NaT throughout when the column is missing
sort_keys(df, cols, tc) ==
    IF tc \in Range(cols) THEN times_of(df, tc) ELSE [k \in 1..Len(df) |-> NaT]

Days == 0..1

\* the script from its top to the date filter
AppFilter(date_filter_enable, date_min, date_max) ==
    /\ prog = "app"
    /\ pc = "start"
    /\ df_filtered' = filtered(df_raw, columns, date_filter_enable, date_min, date_max)
    /\ pc' = "filtered"
    /\ UNCHANGED <<prog, columns, df_raw, df_clean, time_col, window_minutes,
                   criterio, dupes, dropped>>
    /\ UNCHANGED <<call_vars, map_vars>>

\* the rest of the script: detect_duplicates with the sidebar's column and window
AppDetect(tc, w) ==
    /\ prog = "app"
    /\ pc = "filtered"
    /\ LET keys == sort_keys(df_filtered, columns, tc)
       IN  \E o1 \in sort_orders(keys) :
             \E o2 \in sort_orders(sort_values(keys, o1)) :
                dupes' = detect_duplicates(df_filtered, columns, tc, w,
                                           content_cols_of(columns), o1, o2)
    /\ time_col' = tc
    /\ window_minutes' = w
    /\ pc' = IF dupes'.kind = "DataFrame" THEN "shown" ELSE "error"
    /\ UNCHANGED <<prog, columns, df_raw, df_filtered, df_clean, criterio, dropped>>
    /\ UNCHANGED <<call_vars, map_vars>>

\* a widget changed: the script runs again from the top
AppRerun ==
    /\ prog = "app"
    /\ pc \in {"shown", "error"}
    /\ pc' = "start"
    /\ df_filtered' = <<>>
    /\ dupes' = NoResult
    /\ time_col' = "CreationDate"
    /\ window_minutes' = WindowAvances
    /\ UNCHANGED <<prog, columns, df_raw, df_clean, criterio, dropped>>
    /\ UNCHANGED <<call_vars, map_vars>>

(***************************************************************************)
(* src/dashboard_avances.py: a run of the script, and the cleanup button.  *)
(***************************************************************************)
DashRun ==
    /\ prog = "dashboard"
    /\ pc = "start"
    /\ LET keys == sort_keys(df_clean, columns, time_col)
       IN  \E o1 \in sort_orders(keys) :
             \E o2 \in sort_orders(sort_values(keys, o1)) :
                dupes' = detect_duplicates_avances(df_clean, columns, time_col,
                             window_minutes, content_cols_of(columns), o1, o2)
    /\ pc' = IF dupes'.kind = "DataFrame" THEN "shown" ELSE "error"
    /\ UNCHANGED <<prog, columns, df_raw, df_filtered, df_clean, time_col,
                   window_minutes, criterio, dropped>>
    /\ UNCHANGED <<call_vars, map_vars>>

\* Series.idxmax() / idxmin(): the label of the first row holding the extreme
idxmax(ts) ==
    ts[CHOOSE k \in 1..Len(ts) :
          /\ ts[k][time_col] = seq_max(times_of(ts, time_col))
          /\ \A j \in 1..(k - 1) : ts[j][time_col] # ts[k][time_col]].index

\* a pick that takes the latest row whatever the policy
idxmin_latest(ts) == idxmax(ts)

idxmin(ts) ==
    ts[CHOOSE k \in 1..Len(ts) :
          /\ ts[k][time_col] = seq_min(times_of(ts, time_col))
          /\ \A j \in 1..(k - 1) : ts[j][time_col] # ts[k][time_col]].index

\* a loop body that removes one row of the group and leaves the others
limpiar_group_one(df_out, idxs, criterio_txt) ==
    LET sub == SelectSeq(df_out, LAMBDA r : r.index \in Range(idxs))
        ts == SelectSeq(sub, LAMBDA r : r[time_col] # NaT)
        keep == IF ts # <<>>
                THEN IF criterio_txt = "Más reciente" THEN idxmax(ts) ELSE idxmin(ts)
                ELSE sub[1].index
        others == {sub[k].index : k \in 1..Len(sub)} \ {keep}
        drop_ids == {CHOOSE i \in others : TRUE}
    IN  IF Len(sub) <= 1 THEN df_out
        ELSE SelectSeq(df_out, LAMBDA r : r.index \notin drop_ids)

\* the body of the loop of limpiar for the group whose indices are idxs
limpiar_group(df_out, idxs, criterio_txt) ==
    LET sub == SelectSeq(df_out, LAMBDA r : r.index \in Range(idxs))
        ts == SelectSeq(sub, LAMBDA r : r[time_col] # NaT)
        keep == IF ts # <<>>
                THEN IF criterio_txt = "Más reciente" THEN idxmax(ts) ELSE idxmin(ts)
                ELSE sub[1].index
        drop_ids == {sub[k].index : k \in 1..Len(sub)} \ {keep}
    IN  IF Len(sub) <= 1 THEN df_out
        ELSE SelectSeq(df_out, LAMBDA r : r.index \notin drop_ids)

\* a cleanup that handles the first group of the result only
limpiar_first(df_in, dupes_df, criterio_txt) ==
    IF dupes_df = <<>> THEN df_in
    ELSE limpiar_group(df_in, Head(dupes_df).indices, criterio_txt)

RECURSIVE limpiar(_, _, _)
limpiar(df_in, dupes_df, criterio_txt) ==
    IF dupes_df = <<>> THEN df_in
    ELSE limpiar(limpiar_group(df_in, Head(dupes_df).indices, criterio_txt),
                 Tail(dupes_df), criterio_txt)

\* the figures of the summary: total, eliminar_por_grupo, validadas
total(df) == Len(df)

RECURSIVE eliminar_por_grupo(_)
eliminar_por_grupo(dupes_df) ==
    IF dupes_df = <<>> THEN 0
    ELSE LET n == Head(dupes_df).conteo_duplicados
         IN  (IF n - 1 > 0 THEN n - 1 ELSE 0) + eliminar_por_grupo(Tail(dupes_df))

validadas(df, dupes_df) == total(df) - eliminar_por_grupo(dupes_df)

\* dup_set = {i for lst in dupes_now["indices"] for i in lst}
dup_set(dupes_now) == UNION {Range(dupes_now[g].indices) : g \in 1..Len(dupes_now)}

\* the button "Ejecutar limpieza ahora": limpiar, then st.rerun()
DashLimpiar(criterio_txt) ==
    /\ prog = "dashboard"
    /\ pc = "shown"
    /\ dupes.rows # <<>>
    /\ df_clean' = limpiar(df_clean, dupes.rows, criterio_txt)
    /\ criterio' = criterio_txt
    /\ dropped' = dropped \cup (Range(index_of(df_clean)) \ Range(index_of(df_clean')))
    /\ pc' = "start"
    /\ UNCHANGED <<prog, columns, df_raw, df_filtered, time_col, window_minutes, dupes>>
    /\ UNCHANGED <<call_vars, map_vars>>

Next ==
    \/ \E e \in BOOLEAN, lo \in Days, hi \in Days : AppFilter(e, lo, hi)
    \/ \E tc \in Range(date_col_candidates), w \in Windows : AppDetect(tc, w)
    \/ AppRerun
    \/ DashRun
    \/ \E c \in Criterios : DashLimpiar(c)

Spec == Init /\ [][Next]_vars

SpecMany == InitMany /\ [][Next]_vars

SpecSized == InitSized /\ [][Next]_vars

(***************************************************************************)
(* Calls of the normalizers on their own: normalize_string and the two     *)
(* normalize_factors, on a text, a number (passed as the text str() makes  *)
(* of it) or a null; and on a factors cell written from a list of tokens   *)
(* in some order, with some separators, case and surrounding blanks.       *)
(***************************************************************************)
Chars == {" ", ",", ";", "x", "Y", "7"}

Texts(n) == UNION {[1..k -> Chars] : k \in 0..n}

Args == Texts(MaxLen) \cup {NaN}

\* a token holds no separator; it may be empty or hold a blank
TokenChoices == {<<>>, <<"x">>, <<"y">>, <<"x", " ", "y">>}

TokenLists == UNION {[1..k -> TokenChoices] : k \in 1..MaxTokens}

Separators == {<<",">>, <<";">>}

Decorations == {"plain", "upper", "spaced"}

decorate(t, d) ==
    CASE d = "plain" -> t
      [] d = "upper" -> [k \in 1..Len(t) |-> upper_char(t[k])]
      [] d = "spaced" -> <<" ">> \o t \o <<" ">>

\* the tokens in the order perm, each decorated, with seps between them
RECURSIVE written(_, _, _, _)
written(toks, perm, seps, deco) ==
    IF perm = <<>> THEN <<>>
    ELSE LET t == decorate(toks[Head(perm)], deco[Len(toks) - Len(perm) + 1])
         IN  IF Len(perm) = 1 THEN t
             ELSE t \o seps[Len(toks) - Len(perm) + 1]
                    \o written(toks, Tail(perm), seps, deco)

Orders(n) ==
    {f \in [1..n -> 1..n] : \A i, j \in 1..n : i # j => f[i] # f[j]}

InitCall ==
    /\ \/ arg \in Args /\ tokens = <<>>
       \/ arg = <<>> /\ tokens \in TokenLists
    /\ ret = <<>>
    /\ fn = "none"
    /\ prog = "app"
    /\ columns = WithTime
    /\ df_raw = <<>>
    /\ Loaded
    /\ NoMap

\* the factors cell is written from its tokens
Write(perm, seps, deco) ==
    /\ fn = "none"
    /\ tokens # <<>>
    /\ arg' = written(tokens, perm, seps, deco)
    /\ fn' = "written"
    /\ UNCHANGED <<tokens, ret, script_vars, map_vars>>

\* the value is ready to be passed: it came as it is, or was written
Ready == (fn = "none" /\ tokens = <<>>) \/ fn = "written"

CallNormalizeString ==
    /\ Ready
    /\ ret' = normalize_string(arg)
    /\ fn' = "normalize_string"
    /\ UNCHANGED <<arg, tokens, script_vars, map_vars>>

CallNormalizeFactors ==
    /\ Ready
    /\ ret' = normalize_factors(arg)
    /\ fn' = "normalize_factors"
    /\ UNCHANGED <<arg, tokens, script_vars, map_vars>>

CallNormalizeFactorsAvances ==
    /\ Ready
    /\ ret' = normalize_factors_avances(arg)
    /\ fn' = "normalize_factors_avances"
    /\ UNCHANGED <<arg, tokens, script_vars, map_vars>>

NextCall ==
    \/ \E perm \in Orders(Len(tokens)) :
          \E seps \in [1..(Len(tokens) - 1) -> Separators] :
             \E deco \in [1..Len(tokens) -> Decorations] : Write(perm, seps, deco)
    \/ CallNormalizeString
    \/ CallNormalizeFactors
    \/ CallNormalizeFactorsAvances

SpecCall == InitCall /\ [][NextCall]_vars

(***************************************************************************)
(* The map of src/app.py: the pairs of points within the threshold.  A     *)
(* coordinate cell is a number, a text that reads as a number, another     *)
(* text, or null.  The points lie on one meridian, where the haversine     *)
(* distance is R times the difference of the latitudes; latitudes are      *)
(* counted in steps of the angle that subtends 100 m.                      *)
(***************************************************************************)
\* the float NaN pd.to_numeric(errors="coerce") leaves for a cell that is no number
NaNf == -999

\* R * |dphi| for latitudes one step apart, in metres
MetresPerStep == 100

CoordCell(kind, num) == [kind |-> kind, num |-> num]

LatCells ==
    {CoordCell("null", 0), CoordCell("text", 0), CoordCell("numeric text", 1)}
        \cup {CoordCell("number", v) : v \in 0..2}

LonCells == {CoordCell("null", 0), CoordCell("text", 0), CoordCell("number", 0)}

\* the x, y columns of the sheets of n rows, labelled from `first` on
PointSheets(n, first) ==
    { [k \in 1..n |-> [index |-> first + k - 1, x |-> xs[k], y |-> ys[k]]] :
        xs \in [1..n -> LonCells], ys \in [1..n -> LatCells] }

\* pd.to_numeric(df[c], errors="coerce") of one cell
to_numeric(cell) == IF cell.kind \in {"number", "numeric text"} THEN cell.num ELSE NaNf

ensure_lon_lat(df) ==
    [k \in 1..Len(df) |->
        [index |-> df[k].index, x |-> to_numeric(df[k].x), y |-> to_numeric(df[k].y)]]

\* df.dropna(subset=[lat_col, lon_col])
dropna(df) == SelectSeq(df, LAMBDA r : r.y # NaNf /\ r.x # NaNf)

haversine_m(lat1, lon1, lat2, lon2) ==
    CASE lon1 = lon2 ->
        MetresPerStep * (IF lat2 >= lat1 THEN lat2 - lat1 ELSE lat1 - lat2)

\* an inner loop that starts at the point of the outer loop
first_b_same(a) == a

\* range(a + 1, len(pts)): where the inner loop starts
first_b(a) == a + 1

\* the rows appended by the loops from (a, b) on, positions counted from 1
RECURSIVE pair_rows(_, _, _, _)
pair_rows(vp, a, b, threshold) ==
    IF a > Len(vp) THEN <<>>
    ELSE IF b > Len(vp) THEN pair_rows(vp, a + 1, first_b(a + 1), threshold)
    ELSE LET d == haversine_m(vp[a].y, vp[a].x, vp[b].y, vp[b].x)
             here == IF d <= threshold
                     THEN <<[idx_1 |-> vp[a].index, idx_2 |-> vp[b].index,
                             lat1 |-> vp[a].y, lon1 |-> vp[a].x,
                             lat2 |-> vp[b].y, lon2 |-> vp[b].x,
                             dist_m |-> d]>>
                     ELSE <<>>
         IN  here \o pair_rows(vp, a, b + 1, threshold)

dist_of(rows) == [k \in 1..Len(rows) |-> rows[k].dist_m]

\* the thresholds the sidebar is set to in the model
Thresholds == {100, 200}

InitMap ==
    /\ \E n \in 1..MaxPoints, first \in 0..1 : points \in PointSheets(n, first)
    /\ distance_enable = FALSE
    /\ distance_threshold_m = 200
    /\ valid_points = <<>>
    /\ pairs_df = <<>>
    /\ prog = "app"
    /\ columns = WithTime
    /\ df_raw = <<>>
    /\ Loaded
    /\ NoCall

\* the script from "Asegurar coords" to the pairs, detect_duplicates left out
AppMap(enable, threshold) ==
    /\ prog = "app"
    /\ pc = "start"
    /\ distance_enable' = enable
    /\ distance_threshold_m' = threshold
    /\ valid_points' = dropna(ensure_lon_lat(points))
    /\ LET rows == IF enable /\ Len(valid_points') >= 2
                   THEN pair_rows(valid_points', 1, first_b(1), threshold)
                   ELSE <<>>
       IN  \E o \in sort_orders(dist_of(rows)) : pairs_df' = sort_values(rows, o)
    /\ pc' = "mapped"
    /\ UNCHANGED <<prog, columns, df_raw, df_filtered, df_clean, time_col,
                   window_minutes, criterio, dupes, dropped>>
    /\ UNCHANGED <<points, call_vars>>

\* a widget changed: the script runs again from the top
MapRerun ==
    /\ prog = "app"
    /\ pc = "mapped"
    /\ pc' = "start"
    /\ valid_points' = <<>>
    /\ pairs_df' = <<>>
    /\ UNCHANGED <<prog, columns, df_raw, df_filtered, df_clean, time_col,
                   window_minutes, criterio, dupes, dropped>>
    /\ UNCHANGED <<points, distance_enable, distance_threshold_m, call_vars>>

NextMap ==
    \/ \E enable \in BOOLEAN, threshold \in Thresholds : AppMap(enable, threshold)
    \/ MapRerun

SpecMap == InitMap /\ [][NextMap]_vars

(***************************************************************************)
(* What the properties speak of.                                           *)
(***************************************************************************)
\* the table the last detect_duplicates was given
Input == IF prog = "app" THEN df_filtered ELSE df_clean

\* a script run finished and dupes is what detect_duplicates returned for Input
Shown == pc = "shown"

Groups == 1..Len(dupes.rows)

InputLabels == Range(index_of(Input))

\* the row of Input labelled i, its parsed time and its normalized content
InputRow(i) == Input[loc(Input, i)]
TimeOf(i) == InputRow(i)[time_col]
NormOf(i) ==
    IF prog = "app" THEN norm_row(InputRow(i), content_cols_of(columns))
    ELSE norm_row_avances(InputRow(i), content_cols_of(columns))

\* the labels of the rows that make up the group g
Members(g) == Range(dupes.rows[g].members)

\* a and b are neighbours in the time order of the members of g
Consecutive(g, a, b) ==
    /\ TimeOf(a) # NaT /\ TimeOf(b) # NaT
    /\ a # b
    /\ TimeOf(a) <= TimeOf(b)
    /\ ~ \E c \in Members(g) : TimeOf(c) # NaT /\ TimeOf(a) < TimeOf(c) /\ TimeOf(c) < TimeOf(b)

InOneGroup(a, b) == \E g \in Groups : a \in Members(g) /\ b \in Members(g)

Grouped(a) == \E g \in Groups : a \in Members(g)

AllEmpty(i) == \A k \in 1..Len(NormOf(i)) : NormOf(i)[k] = <<>>

(***************************************************************************)
(* C1: in every emitted group, time-consecutive members are at most the    *)
(* window apart, and two records of equal content whose times are exactly  *)
(* the window apart are in one group.                                      *)
(***************************************************************************)
C1_GapWithinWindow ==
    Shown =>
        /\ \A g \in Groups : \A a, b \in Members(g) :
              Consecutive(g, a, b) => TimeOf(b) - TimeOf(a) <= window_minutes
        /\ \A a, b \in InputLabels :
              (/\ NormOf(a) = NormOf(b)
               /\ TimeOf(a) # NaT /\ TimeOf(b) # NaT
               /\ TimeOf(b) - TimeOf(a) = window_minutes) => InOneGroup(a, b)

\* a group holding two neighbours exactly the window apart
C1_Witness ==
    /\ Shown
    /\ \E g \in Groups : \E a, b \in Members(g) :
          Consecutive(g, a, b) /\ TimeOf(b) - TimeOf(a) = window_minutes

(***************************************************************************)
(* C2: every emitted group has at least two members and reports as its     *)
(* size the length of its list of indices.                                 *)
(***************************************************************************)
C2_SizeAtLeastTwo ==
    Shown =>
        \A g \in Groups :
            /\ dupes.rows[g].conteo_duplicados >= 2
            /\ dupes.rows[g].conteo_duplicados = Len(dupes.rows[g].indices)
            /\ Cardinality(Members(g)) = dupes.rows[g].conteo_duplicados

\* a group was emitted while some record of the table, alone in its run, was not
C2_Witness ==
    /\ Shown
    /\ Groups # {}
    /\ \E a \in InputLabels : ~ Grouped(a)

(***************************************************************************)
(* C3: the lists of indices of two groups of one result are disjoint and   *)
(* no list names a record twice.                                           *)
(***************************************************************************)
C3_GroupsDisjoint ==
    Shown =>
        /\ \A g, h \in Groups :
              g # h => /\ Range(dupes.rows[g].indices) \cap Range(dupes.rows[h].indices) = {}
                       /\ Members(g) \cap Members(h) = {}
        /\ \A g \in Groups :
              \A i, j \in 1..Len(dupes.rows[g].indices) :
                  i # j => dupes.rows[g].indices[i] # dupes.rows[g].indices[j]

\* a result of two groups
C3_Witness == Shown /\ Len(dupes.rows) >= 2

(***************************************************************************)
(* C4: the members of a group agree on the normalized value of every       *)
(* content column, and records whose normalized contents differ, also when *)
(* only in where the column boundary falls, get different keys.            *)
(***************************************************************************)
C4_SameContentOnly ==
    Shown =>
        /\ \A a, b \in InputLabels : InOneGroup(a, b) => NormOf(a) = NormOf(b)
        /\ \A a, b \in InputLabels :
              NormOf(a) # NormOf(b) => hash_pandas_object(NormOf(a)) # hash_pandas_object(NormOf(b))

\* two records at one time whose contents differ only in the column boundary,
\* next to an emitted group
C4_Witness ==
    /\ Shown
    /\ Groups # {}
    /\ \E a, b \in InputLabels :
          /\ NormOf(a) # NormOf(b)
          /\ concat(NormOf(a)) = concat(NormOf(b))
          /\ TimeOf(a) # NaT /\ TimeOf(a) = TimeOf(b)
          /\ ~ InOneGroup(a, b)

(***************************************************************************)
(* C5: a record whose content columns all normalize to the empty text is   *)
(* in no emitted group.                                                    *)
(***************************************************************************)
C5_EmptyNeverGrouped ==
    Shown => \A a \in InputLabels : AllEmpty(a) => ~ Grouped(a)

(***************************************************************************)
(* C6: in src/app.py the indices of a group are the labels its member rows *)
(* have in the table given to detect_duplicates.                           *)
(***************************************************************************)
C6_AppIndicesAreLabels ==
    (prog = "app" /\ Shown) =>
        \A g \in Groups : Range(dupes.rows[g].indices) = Members(g)

(***************************************************************************)
(* C7: in src/dashboard_avances.py the indices of a group are the labels   *)
(* its member rows have in the table given to detect_duplicates, so the    *)
(* map's dup_set is the set of the rows that are in a group.               *)
(***************************************************************************)
C7_AvancesIndicesAreLabels ==
    (prog = "dashboard" /\ Shown) =>
        /\ \A g \in Groups :
              /\ dupes.rows[g].indices = dupes.rows[g].members
              /\ Range(dupes.rows[g].indices) \subseteq InputLabels
        /\ dup_set(dupes.rows) = {a \in InputLabels : Grouped(a)}

\* a group whose rows are not where the time sort puts them: its labels are
\* not the positions of its rows in the sorted table
C7_Witness ==
    /\ prog = "dashboard"
    /\ Shown
    /\ \E g \in Groups : \E a \in Members(g), b \in InputLabels :
          /\ a < b
          /\ TimeOf(b) # NaT
          /\ TimeOf(b) < TimeOf(a)

(***************************************************************************)
(* C8: for every group, the cleanup keeps a member with the latest parsed  *)
(* time under "Más reciente" and one with the earliest under "Más          *)
(* antiguo"; when no member has a parsed time it keeps the member that     *)
(* comes first in the table.                                               *)
(***************************************************************************)
\* a step of the cleanup button
LimpiarStep == prog = "dashboard" /\ pc = "shown" /\ pc' = "start"

\* the members of g the cleanup left in the table
KeptOf(g) == Range(dupes.rows[g].indices) \cap Range(index_of(df_clean'))

ParsedOf(g) == {i \in Range(dupes.rows[g].indices) : TimeOf(i) # NaT}

C8_KeepsByPolicy ==
    [][LimpiarStep =>
        \A g \in Groups : \E s \in KeptOf(g) :
            IF ParsedOf(g) # {}
            THEN /\ s \in ParsedOf(g)
                 /\ criterio' = "Más reciente" =>
                        \A m \in ParsedOf(g) : TimeOf(m) <= TimeOf(s)
                 /\ criterio' = "Más antiguo" =>
                        \A m \in ParsedOf(g) : TimeOf(m) >= TimeOf(s)
            ELSE \A m \in Range(dupes.rows[g].indices) :
                        loc(Input, s) <= loc(Input, m)]_vars

\* a cleanup under "Más antiguo" removed a row later than a row of the same
\* content it kept
C8_Witness ==
    /\ prog = "dashboard"
    /\ pc = "start"
    /\ criterio = "Más antiguo"
    /\ \E i \in dropped, k \in 1..Len(df_clean) :
          LET r == df_raw[loc(df_raw, i)]
          IN  /\ norm_row_avances(r, content_cols_of(columns))
                   = norm_row_avances(df_clean[k], content_cols_of(columns))
              /\ df_clean[k][time_col] # NaT
              /\ r[time_col] > df_clean[k][time_col]

C10_ConfigurationError ==
    (pc \in {"shown", "error"} /\ time_col \notin Range(columns)) =>
        (dupes.kind = "ConfigurationError" /\ dupes.key = time_col)

(***************************************************************************)
(* C11: when the time column and every content column are in the table,    *)
(* detect_duplicates returns a frame and raises nothing, whatever the      *)
(* cells, the labels and the order of the rows.                            *)
(***************************************************************************)
C11_NeverRaises ==
    (/\ pc \in {"shown", "error"}
     /\ time_col \in Range(columns)
     /\ Range(content_cols_of(columns)) \subseteq Range(columns)) =>
        dupes.kind = "DataFrame"

(***************************************************************************)
(* C12: normalize_string and both normalize_factors are idempotent: what   *)
(* one call returns, for a text, a number or a null, a second call returns *)
(* unchanged.                                                              *)
(***************************************************************************)
C12_NormalizersIdempotent ==
    /\ fn = "normalize_string" => normalize_string(ret) = ret
    /\ fn = "normalize_factors" => normalize_factors(ret) = ret
    /\ fn = "normalize_factors_avances" => normalize_factors_avances(ret) = ret

\* a call that changed its argument: trimmed, lowered, reordered
C12_Witness ==
    /\ fn = "normalize_factors"
    /\ tokens = <<>>
    /\ arg = <<"Y", ";", "x">>
    /\ ret = <<"x", ",", "y">>

(***************************************************************************)
(* C13: normalize_factors returns, for a cell written from a list of       *)
(* tokens in any order, with "," or ";" between them and any case and      *)
(* surrounding blanks on each, the non-empty normalized tokens in          *)
(* ascending order joined by single commas, so every such writing of the   *)
(* same tokens gives the same text.                                        *)
(***************************************************************************)
\* how often t is in the list l
Count(l, t) == Cardinality({k \in 1..Len(l) : l[k] = t})

\* the list of the parts of a returned factors text
PartsOf(r) == IF r = <<>> THEN <<>> ELSE split_sep(r, ",")

\* the normalized tokens that are not empty
LiveTokens ==
    SelectSeq([k \in 1..Len(tokens) |-> normalize_string(tokens[k])], LAMBDA t : t # <<>>)

C13_FactorsOrderInvariant ==
    (fn \in {"normalize_factors", "normalize_factors_avances"} /\ tokens # <<>>) =>
        /\ \A k \in 1..Len(PartsOf(ret)) : PartsOf(ret)[k] # <<>>
        /\ \A i, j \in 1..Len(PartsOf(ret)) :
              i < j => ~ str_lt(PartsOf(ret)[j], PartsOf(ret)[i])
        /\ \A t \in Range(LiveTokens) \cup Range(PartsOf(ret)) :
              Count(PartsOf(ret), t) = Count(LiveTokens, t)

\* three tokens written out of order, with both separators, an upper-case
\* letter and a blank
C13_Witness ==
    /\ fn = "normalize_factors"
    /\ tokens = <<<<"x">>, <<"y">>, <<"x", " ", "y">>>>
    /\ arg = <<"Y", ",", " ", "x", " ", ";", "x", " ", "y">>
    /\ ret = <<"x", ",", "x", " ", "y", ",", "y">>

(***************************************************************************)
(* C14: the pairs of src/app.py are exactly the unordered pairs of two     *)
(* different records that both have numeric coordinates and lie at most    *)
(* the threshold apart: no pair of a record with itself, no pair twice in  *)
(* either order, a pair at exactly the threshold included, no record with  *)
(* a missing or non-numeric coordinate in any pair.                        *)
(***************************************************************************)
Mapped == prog = "app" /\ pc = "mapped" /\ distance_enable

PointLabels == {points[k].index : k \in 1..Len(points)}

PointOf(i) == points[CHOOSE k \in 1..Len(points) : points[k].index = i]

\* both coordinates of the record are there and are numbers
HasCoords(i) ==
    /\ PointOf(i).x.kind \in {"number", "numeric text"}
    /\ PointOf(i).y.kind \in {"number", "numeric text"}

DistanceOf(i, j) ==
    haversine_m(PointOf(i).y.num, PointOf(i).x.num, PointOf(j).y.num, PointOf(j).x.num)

PairAt(k) == {pairs_df[k].idx_1, pairs_df[k].idx_2}

C14_PairsExact ==
    Mapped =>
        /\ \A k \in 1..Len(pairs_df) :
              /\ pairs_df[k].idx_1 # pairs_df[k].idx_2
              /\ PairAt(k) \subseteq PointLabels
              /\ \A i \in PairAt(k) : HasCoords(i)
              /\ DistanceOf(pairs_df[k].idx_1, pairs_df[k].idx_2) <= distance_threshold_m
        /\ \A k, l \in 1..Len(pairs_df) : k # l => PairAt(k) # PairAt(l)
        /\ \A i, j \in PointLabels :
              (/\ i # j
               /\ HasCoords(i) /\ HasCoords(j)
               /\ DistanceOf(i, j) <= distance_threshold_m) =>
                    \E k \in 1..Len(pairs_df) : PairAt(k) = {i, j}

\* a pair at exactly the threshold, next to a record that has no latitude
C14_Witness ==
    /\ Mapped
    /\ \E k \in 1..Len(pairs_df) : pairs_df[k].dist_m = distance_threshold_m
    /\ \E i \in PointLabels : PointOf(i).y.kind \in {"null", "text"}

(***************************************************************************)
(* C15: groups are maximal runs: two records of equal normalized content   *)
(* with parsed times, with no record of that content strictly between them *)
(* in time and at most the window apart, are in one emitted group; in      *)
(* src/dashboard_avances.py the group's indices name them both.            *)
(***************************************************************************)
\* a and b are neighbours in the time order of the records of their content
NeighboursOfKey(a, b) ==
    /\ a # b
    /\ NormOf(a) = NormOf(b)
    /\ TimeOf(a) # NaT /\ TimeOf(b) # NaT
    /\ TimeOf(a) <= TimeOf(b)
    /\ ~ \E c \in InputLabels :
            /\ NormOf(c) = NormOf(a)
            /\ TimeOf(c) # NaT
            /\ TimeOf(a) < TimeOf(c) /\ TimeOf(c) < TimeOf(b)

C15_MaximalRuns ==
    Shown =>
        \A a, b \in InputLabels :
            (NeighboursOfKey(a, b) /\ TimeOf(b) - TimeOf(a) <= window_minutes) =>
                /\ InOneGroup(a, b)
                /\ prog = "dashboard" =>
                      \E g \in Groups : {a, b} \subseteq Range(dupes.rows[g].indices)

\* two neighbours in one group while a third record of their content, more
\* than the window away, starts a run of its own
C15_Witness ==
    /\ Shown
    /\ \E a, b, c \in InputLabels :
          /\ NeighboursOfKey(a, b)
          /\ TimeOf(b) - TimeOf(a) <= window_minutes
          /\ InOneGroup(a, b)
          /\ NormOf(c) = NormOf(a)
          /\ TimeOf(c) # NaT
          /\ TimeOf(c) - TimeOf(b) > window_minutes
          /\ ~ Grouped(c)

(***************************************************************************)
(* C16: a record whose time is missing or did not parse is in no emitted   *)
(* group, whatever other records have its content; it neither extends a    *)
(* run (every member of a group has a parsed time) nor splits one          *)
(* (neighbours with parsed times stay together when such a record shares   *)
(* their content).                                                         *)
(***************************************************************************)
C16_UndefinedTimeNeverGrouped ==
    Shown =>
        /\ \A a \in InputLabels :
              TimeOf(a) = NaT =>
                  /\ ~ Grouped(a)
                  /\ prog = "dashboard" => a \notin dup_set(dupes.rows)
        /\ \A g \in Groups : \A m \in Members(g) : TimeOf(m) # NaT
        /\ \A a, b, c \in InputLabels :
              (/\ TimeOf(c) = NaT
               /\ NormOf(c) = NormOf(a)
               /\ NeighboursOfKey(a, b)
               /\ TimeOf(b) - TimeOf(a) <= window_minutes) => InOneGroup(a, b)

\* a group was emitted while a record of its content has no parsed time
C16_Witness ==
    /\ Shown
    /\ \E g \in Groups : \E m \in Members(g), c \in InputLabels :
          /\ TimeOf(c) = NaT
          /\ NormOf(c) = NormOf(m)

(***************************************************************************)
(* C17: in src/app.py the content columns of an emitted group hold, for    *)
(* every content column, the normalized value of each of its members,      *)
(* also when the table is not in time order.                               *)
(***************************************************************************)
C17_AppContentOfMembers ==
    (prog = "app" /\ Shown) =>
        \A g \in Groups : \A m \in Members(g) : dupes.rows[g].content = NormOf(m)

(***************************************************************************)
(* C18: the cleanup leaves exactly one member of every detected group,     *)
(* removes no row that is in no group and changes no row it leaves, so the *)
(* cleaned table has the number of rows the summary announced as           *)
(* "Quedarán validadas": total minus the sum over the groups of size - 1.  *)
(***************************************************************************)
C18_RemovesAllButOne ==
    [][LimpiarStep =>
        /\ \A g \in Groups : Cardinality(KeptOf(g)) = 1
        /\ \A i \in InputLabels :
              i \notin dup_set(dupes.rows) => i \in Range(index_of(df_clean'))
        /\ df_clean' = SelectSeq(df_clean, LAMBDA r : r.index \in Range(index_of(df_clean')))
        /\ Len(df_clean') = validadas(df_clean, dupes.rows)]_vars

\* a cleanup of a result of two groups removed one row of each
C18_Witness ==
    /\ prog = "dashboard"
    /\ pc = "start"
    /\ Len(dupes.rows) = 2
    /\ Cardinality(dropped) = 2
    /\ \A g \in Groups : Cardinality(Range(dupes.rows[g].indices) \cap dropped) = 1

(***************************************************************************)
(* C19: the groups come by descending size and, at equal size, by          *)
(* descending latest time; the sequence of groups is the same however the  *)
(* time sorts break the ties among the rows, also among groups that tie on *)
(* size and latest time.                                                   *)
(***************************************************************************)
\* a result as the sequence of its groups: size, times and member rows
GroupSeq(d) ==
    [g \in 1..Len(d.rows) |->
        [conteo_duplicados |-> d.rows[g].conteo_duplicados,
         primero |-> d.rows[g].primero,
         ultimo |-> d.rows[g].ultimo,
         rows |-> Range(d.rows[g].members)]]

\* what the call returns when its two sorts come out as o1 and o2
DetectWith(o1, o2) ==
    IF prog = "app"
    THEN detect_duplicates(Input, columns, time_col, window_minutes,
                           content_cols_of(columns), o1, o2)
    ELSE detect_duplicates_avances(Input, columns, time_col, window_minutes,
                                   content_cols_of(columns), o1, o2)

C19_OrderedBySizeThenLatest ==
    Shown =>
        /\ \A g, h \in Groups :
              g < h =>
                \/ dupes.rows[g].conteo_duplicados > dupes.rows[h].conteo_duplicados
                \/ /\ dupes.rows[g].conteo_duplicados = dupes.rows[h].conteo_duplicados
                   /\ dupes.rows[g].ultimo >= dupes.rows[h].ultimo
        /\ \A o1 \in sort_orders(times_of(Input, time_col)) :
              \A o2 \in sort_orders(sort_values(times_of(Input, time_col), o1)) :
                  DetectWith(o1, o2).kind = "DataFrame" =>
                      GroupSeq(DetectWith(o1, o2)) = GroupSeq(dupes)

\* a group of three before a group of two whose latest time is later
C19_Witness ==
    /\ Shown
    /\ Len(dupes.rows) = 2
    /\ dupes.rows[1].conteo_duplicados = 3
    /\ dupes.rows[2].conteo_duplicados = 2
    /\ dupes.rows[2].ultimo > dupes.rows[1].ultimo

(***************************************************************************)
(* C20: for every emitted group, primero is the earliest and ultimo the    *)
(* latest parsed time of its members, both are defined, primero is not     *)
(* after ultimo, and ultimo - primero is at most (size - 1) times the      *)
(* window.                                                                 *)
(***************************************************************************)
C20_FirstLastBounds ==
    Shown =>
        \A g \in Groups :
            LET r == dupes.rows[g]
                ts == {TimeOf(m) : m \in Members(g)} \ {NaT}
            IN  /\ r.primero # NaT /\ r.ultimo # NaT
                /\ r.primero \in ts /\ \A t \in ts : r.primero <= t
                /\ r.ultimo \in ts /\ \A t \in ts : t <= r.ultimo
                /\ r.primero <= r.ultimo
                /\ r.ultimo - r.primero <= (r.conteo_duplicados - 1) * window_minutes

\* a chain: a group of three that spans two windows
C20_Witness ==
    /\ Shown
    /\ \E g \in Groups :
          /\ dupes.rows[g].conteo_duplicados = 3
          /\ dupes.rows[g].ultimo - dupes.rows[g].primero = 2 * window_minutes

=============================================================================
